---------------------------- MODULE Spec2Model ----------------------------
(***************************************************************************)
(* A model of the YNAB categorizer: the Fetcher/Categorizer                *)
(* (categorize_agent.py), the Approval Handler (approval_handler.py) and   *)
(* the JSON state document /tmp/ynab_agent_state.json they share.          *)
(***************************************************************************)
EXTENDS Integers, Sequences, FiniteSets, Bags, TLC

(***************************************************************************)
(* Bounds of the model.                                                    *)
(***************************************************************************)
\* longest transaction list handed to detect_transfer_pairs in SpecDetect
MaxLen == 3

(***************************************************************************)
(* Part 1: detect_transfer_pairs as a pure function.                       *)
(***************************************************************************)
\* a transaction without "transfer_account_id" (None): txn.get(...) is falsy
NoAccount == "none"

Accounts == {"acctA", "acctB"}

\* the amounts of the bounded inputs, in milliunits; 0 is its own negation
Amounts == {-5000, 0, 5000}

\* the calendar dates of the bounded inputs
Dates == {1, 2}

\* txn.get("transfer_account_id") is truthy
IsTransfer(txn) == txn.transfer_account_id # NoAccount

IsNotTransfer(txn) == ~IsTransfer(txn)

\* a match test that compares the amounts for equality instead of negation
MatchingPairSameAmount(txn1, txn2) ==
    /\ txn1.date = txn2.date
    /\ txn1.amount = txn2.amount
    /\ txn1.account_id = txn2.transfer_account_id
    /\ txn2.account_id = txn1.transfer_account_id

\* the condition under which the inner loop records (txn1, txn2) as a pair
MatchingPair(txn1, txn2) ==
    /\ txn1.date = txn2.date
    /\ txn1.amount = -txn2.amount
    /\ txn1.account_id = txn2.transfer_account_id
    /\ txn2.account_id = txn1.transfer_account_id

\* an inner loop that does not skip the transactions already claimed
RECURSIVE FirstMatchAnyClaim(_, _, _, _)
FirstMatchAnyClaim(transfers, i, j, processed_ids) ==
    IF j > Len(transfers) THEN 0
    ELSE IF MatchingPair(transfers[i], transfers[j]) THEN j
    ELSE FirstMatchAnyClaim(transfers, i, j + 1, processed_ids)

\* the inner loop "for txn2 in transfers[i+1:]": the position of the first
\* transaction after i that is not yet claimed and matches, 0 when there is none
RECURSIVE FirstMatch(_, _, _, _)
FirstMatch(transfers, i, j, processed_ids) ==
    IF j > Len(transfers) THEN 0
    ELSE IF transfers[j].id \in processed_ids
         THEN FirstMatch(transfers, i, j + 1, processed_ids)
    ELSE IF MatchingPair(transfers[i], transfers[j]) THEN j
    ELSE FirstMatch(transfers, i, j + 1, processed_ids)

\* an outer loop without "if txn1['id'] in processed_ids: continue": a
\* transaction an earlier pair has claimed looks for a partner of its own
RECURSIVE PairLoopNoSkip(_, _, _, _)
PairLoopNoSkip(transfers, i, transfer_pairs, processed_ids) ==
    IF i > Len(transfers)
    THEN [transfer_pairs |-> transfer_pairs, processed_ids |-> processed_ids]
    ELSE LET j == FirstMatch(transfers, i, i + 1, processed_ids) IN
         IF j = 0
         THEN PairLoopNoSkip(transfers, i + 1, transfer_pairs, processed_ids)
         ELSE PairLoopNoSkip(transfers, i + 1,
                  Append(transfer_pairs, <<transfers[i], transfers[j]>>),
                  processed_ids \cup {transfers[i].id, transfers[j].id})

\* the outer loop "for i, txn1 in enumerate(transfers)"; the result is the
\* record of transfer_pairs and processed_ids at the end of the loop
RECURSIVE PairLoop(_, _, _, _)
PairLoop(transfers, i, transfer_pairs, processed_ids) ==
    IF i > Len(transfers)
    THEN [transfer_pairs |-> transfer_pairs, processed_ids |-> processed_ids]
    ELSE IF transfers[i].id \in processed_ids
         THEN PairLoop(transfers, i + 1, transfer_pairs, processed_ids)
    ELSE LET j == FirstMatch(transfers, i, i + 1, processed_ids) IN
         IF j = 0
         THEN PairLoop(transfers, i + 1, transfer_pairs, processed_ids)
         ELSE PairLoop(transfers, i + 1,
                       Append(transfer_pairs, <<transfers[i], transfers[j]>>),
                       processed_ids \cup {transfers[i].id, transfers[j].id})

\* a detector that drops the unmatched transfers instead of folding them back
DetectTransferPairsNoFold(transactions) ==
    LET transfers == SelectSeq(transactions, IsTransfer)
        non_transfers == SelectSeq(transactions, IsNotTransfer)
        loop == PairLoop(transfers, 1, <<>>, {})
    IN  [transfer_pairs |-> loop.transfer_pairs,
         non_transfers |-> non_transfers]

\* detect_transfer_pairs(transactions) -> (transfer_pairs, non_transfers)
DetectTransferPairs(transactions) ==
    LET transfers == SelectSeq(transactions, IsTransfer)
        non_transfers == SelectSeq(transactions, IsNotTransfer)
        loop == PairLoop(transfers, 1, <<>>, {})
        Unmatched(txn) == txn.id \notin loop.processed_ids
        unmatched_transfers == SelectSeq(transfers, Unmatched)
    IN  [transfer_pairs |-> loop.transfer_pairs,
         non_transfers |-> non_transfers \o unmatched_transfers]

(***************************************************************************)
(* Part 2: the data shared by the two processes.                           *)
(***************************************************************************)
\* bound: the number of summaries the chat platform accepts (one ts each)
MaxRuns == 2
\* bound: the longest list of numbers in an "approve <numbers>" reply, in
\* the system specification Spec
SysNumbers == 1
\* bound: the longest list of numbers in an "approve <numbers>" reply, in
\* the single-batch specification SpecBatch
MaxNumbers == 2
\* bound: the longest batch of SpecBatch
MaxBatch == 3

\* a transaction record of the budgeting API, with the fields the code reads
Txn(id, payee_name, date, amount, account_id, transfer_account_id) ==
    [id |-> id, payee_name |-> payee_name, date |-> date, amount |-> amount,
     account_id |-> account_id, transfer_account_id |-> transfer_account_id,
     approved |-> FALSE, deleted |-> FALSE, subtransactions |-> FALSE]

\* unapproved spending transactions; the first two have the same payee up to
\* case and blanks
RegularTxns ==
    << Txn("t1", "Kroger", 1, -5000, "acctA", NoAccount),
       Txn("t2", " kroger", 1, -7000, "acctA", NoAccount),
       Txn("t3", "Shell", 2, -3000, "acctB", NoAccount),
       Txn("t4", "Costco", 2, -8000, "acctA", NoAccount) >>

\* the two sides of one transfer between the tracked accounts
TransferOut == Txn("x1", "Transfer : B", 2, -5000, "acctA", "acctB")

TransferIn == Txn("x2", "Transfer : A", 2, 5000, "acctB", "acctA")

\* transactions the fetch step must skip: approved, a split parent, deleted
ApprovedTxn ==
    [Txn("a1", "Rent", 1, -9000, "acctA", NoAccount) EXCEPT !.approved = TRUE]

SplitTxn ==
    [Txn("s1", "Target", 1, -6000, "acctA", NoAccount) EXCEPT
        !.subtransactions = TRUE]

DeletedTxn ==
    [Txn("d1", "Void", 1, -1000, "acctA", NoAccount) EXCEPT !.deleted = TRUE]

\* the list the budgeting API answers with, for a budget with n unapproved
\* spending transactions, in the order it lists them
Budget(n, transfers) ==
    (IF transfers THEN <<TransferOut>> ELSE <<>>)
        \o SubSeq(RegularTxns, 1, n) \o <<ApprovedTxn>>
        \o (IF transfers THEN <<TransferIn>> ELSE <<>>)
        \o <<SplitTxn, DeletedTxn>>

\* the budgets of the system specification: one with a transfer between the
\* two accounts, one with spending only
Budgets == {Budget(2, TRUE), Budget(1, FALSE)}

\* A category name, and the text typed for one, is a character string: the
\* sequence of its characters.  "" is the empty sequence.
EmptyString == <<>>

UpperCase ==
    <<"A", "B", "C", "D", "E", "F", "G", "H", "I", "J", "K", "L", "M",
      "N", "O", "P", "Q", "R", "S", "T", "U", "V", "W", "X", "Y", "Z">>

LowerCase ==
    <<"a", "b", "c", "d", "e", "f", "g", "h", "i", "j", "k", "l", "m",
      "n", "o", "p", "q", "r", "s", "t", "u", "v", "w", "x", "y", "z">>

\* the position of character c in an alphabet, 0 when it is not in it
LetterIn(alphabet, c) ==
    IF \E k \in DOMAIN alphabet : alphabet[k] = c
    THEN CHOOSE k \in DOMAIN alphabet : alphabet[k] = c
    ELSE 0

\* str.lower() on one character: an upper-case letter becomes its lower-case
\* letter, every other character stays
LowerChar(c) ==
    IF LetterIn(UpperCase, c) # 0 THEN LowerCase[LetterIn(UpperCase, c)] ELSE c

\* str.lower()
Lower(s) == [k \in DOMAIN s |-> LowerChar(s[k])]

\* "sub in s" on strings: sub occurs in s as a run of adjacent characters
Contains(sub, s) ==
    \E start \in 1..(Len(s) - Len(sub) + 1) :
        SubSeq(s, start, start + Len(sub) - 1) = sub

\* the code point of a character: the blank, then the upper-case letters,
\* then the lower-case letters
Ord(c) ==
    IF LetterIn(UpperCase, c) # 0 THEN 64 + LetterIn(UpperCase, c)
    ELSE IF LetterIn(LowerCase, c) # 0 THEN 96 + LetterIn(LowerCase, c)
    ELSE 32

\* a < b on strings, as sorted() compares them: by code point, character by
\* character, a proper prefix before the longer string
RECURSIVE StrLess(_, _)
StrLess(a, b) ==
    IF b = <<>> THEN FALSE
    ELSE IF a = <<>> THEN TRUE
    ELSE IF Ord(Head(a)) # Ord(Head(b)) THEN Ord(Head(a)) < Ord(Head(b))
    ELSE StrLess(Tail(a), Tail(b))

\* sorted(names) for a set of strings
RECURSIVE SortedNames(_)
SortedNames(names) ==
    IF names = {} THEN <<>>
    ELSE LET least == CHOOSE x \in names :
                         \A y \in names \ {x} : StrLess(x, y)
         IN  <<least>> \o SortedNames(names \ {least})

\* category names of a budget
Groceries == <<"G", "r", "o", "c", "e", "r", "i", "e", "s">>

Gas == <<"G", "a", "s">>

GasBill == <<"G", "a", "s", " ", "B", "i", "l", "l">>

Rent == <<"R", "e", "n", "t">>

Auto == <<"A", "u", "t", "o">>

Gifts == <<"G", "i", "f", "t", "s">>

Fun == <<"F", "u", "n">>

Water == <<"W", "a", "t", "e", "r">>

Phone == <<"P", "h", "o", "n", "e">>

Travel == <<"T", "r", "a", "v", "e", "l">>

Pets == <<"P", "e", "t", "s">>

AutoLoan == <<"a", "u", "t", "o", " ", "l", "o", "a", "n">>

\* texts typed after "<n>:"
TypedGroceries == <<"g", "r", "o", "c", "e", "r", "i", "e", "s">>

TypedNonexistent == <<"n", "o", "n", "e", "x", "i", "s", "t", "e", "n", "t">>

TypedGroc == <<"g", "r", "o", "c">>

TypedGas == <<"G", "A", "S">>

TypedGasBill == <<"g", "a", "s", " ", "b", "i", "l", "l">>

TypedAuto == <<"A", "u", "t", "o">>

TypedLoan == <<"L", "O", "A", "N">>

TypedT == <<"t">>

\* the names of the categories get_categories keeps (visible, not deleted)
CategoryNames == {Groceries, Gas}

\* the category names the completion API may answer with: nothing checks an
\* answer against the known names
SuggestedNames == {Groceries, TypedGroceries}

\* payee_name.lower().strip()
Normalize(payee_name) ==
    CASE payee_name = "Kroger" -> "kroger"
      [] payee_name = " kroger" -> "kroger"
      [] payee_name = "Shell" -> "shell"
      [] payee_name = "Costco" -> "costco"
      [] payee_name = "Transfer : A" -> "transfer : a"
      [] payee_name = "Transfer : B" -> "transfer : b"
      [] OTHER -> payee_name

\* dict[key] = value
Put(dict, key, value) ==
    [k \in (DOMAIN dict) \cup {key} |-> IF k = key THEN value ELSE dict[k]]

\* dict.pop(key, None)
Pop(dict, key) == [k \in (DOMAIN dict) \ {key} |-> dict[k]]

\* what load_state returns when the state file does not exist; the list
\* processed_transactions is held as a bag: the code appends to it and tests
\* membership in it, and never reads the order of its entries
EmptyState ==
    [processed_transactions |-> EmptyBag,
     category_patterns |-> <<>>,
     pending |-> <<>>]

\* the set of the elements of a list
Elems(list) == {list[k] : k \in DOMAIN list}

\* txn["id"] in a list of ids
InList(id, ids) == \E k \in DOMAIN ids : ids[k] = id

\* the entries of a list, as a bag
RECURSIVE ListToBag(_)
ListToBag(list) ==
    IF list = <<>> THEN EmptyBag
    ELSE SetToBag({Head(list)}) (+) ListToBag(Tail(list))

(***************************************************************************)
(* Part 3: the state of the system.                                        *)
(***************************************************************************)
\* the Approval Handler processes (approval_handler.py run as a server)
Handlers == {"h1"}

VARIABLES
    ynab,       \* the transaction list the budgeting API answers with
    disk,       \* the JSON document in STATE_FILE
    nextTs,     \* the ts the chat platform gives the next posted summary
    fetcher,    \* the Fetcher/Categorizer process: pc and self.state (the
                \* process exits after a run: "idle" keeps no state)
    handler,    \* per Approval Handler process: pc, self.state, the locals
    dIn,        \* SpecDetect: the list given to detect_transfer_pairs;
                \* SpecResolve: the category names and the typed text
    dOut,       \* SpecDetect: what detect_transfer_pairs returned;
                \* SpecResolve: the matched name, the names of the hint
    dpc         \* SpecDetect: "input" before the call, "done" after it;
                \* SpecResolve: "typed" before, "resolved" after

vars == <<ynab, disk, nextTs, fetcher, handler, dIn, dOut, dpc>>

sysVars == <<ynab, disk, nextTs, fetcher, handler>>

detectVars == <<dIn, dOut, dpc>>

\* the answer posted to the thread: its kind, the thread it goes to, the
\* counts its text states (remaining = 0: no "still pending" line)
NoReply == [kind |-> "none", thread_ts |-> 0, count |-> 0, total |-> 0,
            remaining |-> 0]

NoCommand == [kind |-> "none", numbers |-> <<>>, txn_num |-> 0,
              new_category |-> EmptyString]

\* a handler process between two requests: self.state is all it keeps.
\* While a request is served the record holds process_approval's locals, and
\* with them `before`, self.state as the request found it, and `saves`, the
\* number of save_state calls the request has made
IdleLocals(state) ==
    [pc |-> "idle", state |-> state, cmd |-> NoCommand, thread_ts |-> 0,
     transactions |-> <<>>, i |-> 0, results |-> <<>>, approved_ids |-> <<>>,
     matched_category |-> EmptyString, saves |-> 0, before |-> EmptyState,
     reply |-> NoReply]

\* the state after construction: no state file, no process started
SysInit ==
    /\ ynab \in Budgets
    /\ disk = EmptyState
    /\ nextTs = 1
    /\ fetcher = [pc |-> "idle", state |-> EmptyState]
    /\ handler = [h \in Handlers |-> [IdleLocals(EmptyState) EXCEPT !.pc = "down"]]

DetectIdle ==
    /\ dIn = <<>>
    /\ dOut = [transfer_pairs |-> <<>>, non_transfers |-> <<>>]
    /\ dpc = "idle"

(***************************************************************************)
(* Part 4: the Fetcher/Categorizer, YNABAgent.run.                         *)
(***************************************************************************)
\* YNABAgent.__init__: self.state = self.load_state()
FetcherStart ==
    /\ fetcher.pc = "idle"
    /\ nextTs <= MaxRuns
    /\ fetcher' = [pc |-> "loaded", state |-> disk]
    /\ UNCHANGED <<ynab, disk, nextTs, handler>>
    /\ UNCHANGED detectVars

\* get_uncategorized_transactions: the filter over the API's list
GetUncategorizedTransactions(state, all_transactions) ==
    LET Keep(txn) ==
            /\ ~(txn.approved \/ BagIn(txn.id, state.processed_transactions))
            /\ ~txn.subtransactions
            /\ ~txn.deleted
    IN  SelectSeq(all_transactions, Keep)

\* categorize_with_ai: suggestion i is written onto transaction i
CategorizeWithAi(transactions, suggestions) ==
    [k \in DOMAIN transactions |->
        [id |-> transactions[k].id,
         payee_name |-> transactions[k].payee_name,
         suggested_category |-> suggestions[k]]]

\* run() when the filter leaves nothing: "No work to do", return
FetcherNoWork ==
    /\ fetcher.pc = "loaded"
    /\ GetUncategorizedTransactions(fetcher.state, ynab) = <<>>
    /\ fetcher' = [fetcher EXCEPT !.pc = "idle"]
    /\ UNCHANGED <<ynab, disk, nextTs, handler>>
    /\ UNCHANGED detectVars

\* send_to_slack's tail: self.state["pending_<ts>"] = {...}; save_state()
StorePending(state, ts, transactions, transfer_pairs) ==
    [state EXCEPT !.pending =
        Put(@, ts, [transactions |-> transactions,
                    transfer_pairs |-> transfer_pairs])]

\* run() from the fetch to send_to_slack, every external call succeeding
FetcherPublish ==
    /\ fetcher.pc = "loaded"
    /\ nextTs <= MaxRuns
    /\ LET transactions ==
               GetUncategorizedTransactions(fetcher.state, ynab)
           detected == DetectTransferPairs(transactions)
       IN  /\ transactions # <<>>
           /\ \E suggestions \in
                  [DOMAIN detected.non_transfers -> SuggestedNames] :
                LET categorized ==
                        CategorizeWithAi(detected.non_transfers, suggestions)
                    state == StorePending(fetcher.state, nextTs, categorized,
                                          detected.transfer_pairs)
                IN  /\ fetcher' = [pc |-> "idle", state |-> EmptyState]
                    /\ disk' = state
    /\ nextTs' = nextTs + 1
    /\ UNCHANGED <<ynab, handler>>
    /\ UNCHANGED detectVars

\* run() when an external call fails (raise_for_status, a chat API error):
\* the except branch prints the trace and exits, nothing is saved
FetcherAbort ==
    /\ fetcher.pc = "loaded"
    /\ fetcher' = [pc |-> "idle", state |-> EmptyState]
    /\ UNCHANGED <<ynab, disk, nextTs, handler>>
    /\ UNCHANGED detectVars

(***************************************************************************)
(* Part 5: the Approval Handler.                                           *)
(***************************************************************************)
\* category_name_to_id.keys() in iteration order (the API's order)
CategoryOrder == <<Groceries, Gas>>

\* the category texts a "<n>: <text>" reply may carry
CategoryInputs == {TypedGroceries, TypedNonexistent}

\* the first of a set of positions of a list, 0 for the empty set: the
\* position at which a "for cat_name in ...: if ...: break" loop stops
FirstCategory(positions) ==
    IF positions = {} THEN 0
    ELSE CHOOSE k \in positions : \A m \in positions : k <= m

\* a resolution that tries the partial match before the exact one
MatchPartialFirst(categories, new_category) ==
    LET exact == {k \in DOMAIN categories :
                    Lower(categories[k]) = Lower(new_category)}
        partial == {k \in DOMAIN categories :
                      Contains(Lower(new_category), Lower(categories[k]))}
        e == FirstCategory(exact)
        p == FirstCategory(partial)
    IN  IF p # 0 THEN categories[p]
        ELSE IF e # 0 THEN categories[e]
        ELSE EmptyString

\* change_category's resolution of the typed text against the names of
\* category_name_to_id, in their iteration order: the matched name, or ""
MatchCategoryIn(categories, new_category) ==
    LET exact == {k \in DOMAIN categories :
                    Lower(categories[k]) = Lower(new_category)}
        partial == {k \in DOMAIN categories :
                      Contains(Lower(new_category), Lower(categories[k]))}
        e == FirstCategory(exact)
        p == FirstCategory(partial)
    IN  IF e # 0 THEN categories[e]
        ELSE IF p # 0 THEN categories[p]
        ELSE EmptyString

\* the resolution against the categories of the handler process
MatchCategory(new_category) == MatchCategoryIn(CategoryOrder, new_category)

\* the number of names the "not found" reply lists
HintLimit == 10

\* ", ".join(sorted(self.category_name_to_id.keys())[:10])
Available(categories) ==
    LET sorted == SortedNames(Elems(categories))
    IN  SubSeq(sorted, 1, IF Len(sorted) < HintLimit THEN Len(sorted)
                          ELSE HintLimit)

\* update_ynab_transaction looks the name up before any request is made
KnownCategory(category_name) == category_name \in Elems(CategoryOrder)

\* learn_pattern's assignment (its save_state is part of the calling action)
LearnPattern(state, payee_name, category) ==
    [state EXCEPT !.category_patterns = Put(@, Normalize(payee_name), category)]

\* find_pending_transactions: the batch's list, <<>> standing for None too
\* (process_approval treats both alike: "if not transactions")
FindPendingTransactions(state, thread_ts) ==
    IF thread_ts \in DOMAIN state.pending
    THEN state.pending[thread_ts].transactions
    ELSE <<>>

\* the lists of numbers re.findall(r'\d+', text) can give for a batch of n
\* transactions: its positions, 0 before them and the one past them
NumberLists(n, longest) ==
    UNION {[1..m -> 0..(n + 1)] : m \in 0..longest}

\* the replies to a batch of n transactions, as process_approval classifies
\* their text, with at most `longest` numbers in one reply
Commands(n, longest) ==
    {[NoCommand EXCEPT !.kind = "approve_all"],
     [NoCommand EXCEPT !.kind = "skip"],
     [NoCommand EXCEPT !.kind = "other"]}
    \cup {[NoCommand EXCEPT !.kind = "approve_specific", !.numbers = ns] :
            ns \in NumberLists(n, longest)}
    \cup {[NoCommand EXCEPT !.kind = "change", !.txn_num = num,
                            !.new_category = c] :
            num \in 1..(n + 1), c \in CategoryInputs}

\* a reply without counts
Answer(kind, thread_ts) == [NoReply EXCEPT !.kind = kind, !.thread_ts = thread_ts]

\* the handler process when process_approval has returned its answer to
\* slack_events, which has yet to post it; the record of the request lasts
\* until the answer is posted
Answered(L, state, reply) ==
    [L EXCEPT !.pc = "replying", !.state = state, !.reply = reply]

\* the locals of a request for thread_ts when process_approval has looked up
\* its batch
Request(state, cmd, thread_ts) ==
    [IdleLocals(state) EXCEPT
        !.cmd = cmd, !.thread_ts = thread_ts,
        !.transactions = FindPendingTransactions(state, thread_ts),
        !.before = state]

\* slack_events posts the answer to the thread and returns
PostReply(h) ==
    /\ handler[h].pc = "replying"
    /\ handler' = [handler EXCEPT ![h] = IdleLocals(handler[h].state)]
    /\ UNCHANGED <<ynab, disk, nextTs, fetcher>>
    /\ UNCHANGED detectVars

\* the module-level "handler = ApprovalHandler()": the process loads the
\* state document once, when it starts, and then serves requests
HandlerStart(h) ==
    /\ handler[h].pc = "down"
    /\ handler' = [handler EXCEPT ![h] = IdleLocals(disk)]
    /\ UNCHANGED <<ynab, disk, nextTs, fetcher>>
    /\ UNCHANGED detectVars

\* a range check that takes the last position of the batch for one past it
InvalidNumberOrLast(num, transactions) == num < 1 \/ num >= Len(transactions)

\* a number that names no transaction of the batch
InvalidNumber(num, transactions) == num < 1 \/ num > Len(transactions)

\* process_approval when find_pending_transactions gives None or an empty
\* list: whatever the text says, the reply is "Could not find pending ..."
AnswerNotFound(h, thread_ts) ==
    /\ handler[h].pc = "idle"
    /\ FindPendingTransactions(handler[h].state, thread_ts) = <<>>
    /\ handler' = [handler EXCEPT ![h] =
          Answered(Request(handler[h].state, NoCommand, thread_ts),
                   handler[h].state, Answer("not_found", thread_ts))]
    /\ UNCHANGED <<ynab, disk, nextTs, fetcher>>
    /\ UNCHANGED detectVars

\* the reply process_approval gives to a command it ends without an update
\* call, "" for a command that goes on to one
ImmediateAnswer(cmd, transactions) ==
    CASE cmd.kind = "skip" -> "skipped"
      [] cmd.kind = "other" -> "help"
      [] cmd.kind = "change" /\ InvalidNumber(cmd.txn_num, transactions) ->
            "invalid_number"
      [] cmd.kind = "change"
           /\ MatchCategory(cmd.new_category) = EmptyString ->
            "unknown_category"
      [] OTHER -> ""

\* process_approval on a batch it found, for the replies it answers without
\* an update call: skip, the help text, a bad number or an unknown category
AnswerAtOnce(h, cmd, thread_ts) ==
    /\ handler[h].pc = "idle"
    /\ \E transactions \in
            {FindPendingTransactions(handler[h].state, thread_ts)} :
        /\ transactions # <<>>
        /\ ImmediateAnswer(cmd, transactions) # ""
        /\ handler' = [handler EXCEPT ![h] =
              Answered(Request(handler[h].state, cmd, thread_ts),
                       handler[h].state,
                       Answer(ImmediateAnswer(cmd, transactions), thread_ts))]
    /\ UNCHANGED <<ynab, disk, nextTs, fetcher>>
    /\ UNCHANGED detectVars

\* update_ynab_transaction issues its PATCH only for a known category name
PatchIssued(category_name) == KnownCategory(category_name)

\* an update that reports success for a name it has no id for
UpdateWithoutLookup(category_name, http_ok) == http_ok

\* update_ynab_transaction's result: the name is known and the PATCH
\* answered 200 (http_ok)
UpdateYnabTransaction(category_name, http_ok) ==
    KnownCategory(category_name) /\ http_ok

\* a processed-id list that is replaced by the new ids instead of extended
MarkProcessedOnly(state, ids) ==
    [state EXCEPT !.processed_transactions = ListToBag(ids)]

\* self.state["processed_transactions"].append / .extend
MarkProcessed(state, ids) ==
    [state EXCEPT !.processed_transactions = @ (+) ListToBag(ids)]

\* a remaining list that keeps the approved transactions and drops the others
RemainingApproved(transactions, approved_ids) ==
    LET Approved(txn) == InList(txn.id, approved_ids)
    IN  SelectSeq(transactions, Approved)

\* [txn for txn in transactions if txn["id"] not in approved_ids]
Remaining(transactions, approved_ids) ==
    LET NotApproved(txn) == ~InList(txn.id, approved_ids)
    IN  SelectSeq(transactions, NotApproved)

\* "if remaining: state[key]["transactions"] = remaining else: state.pop(key)"
KeepRemaining(state, thread_ts, remaining) ==
    IF remaining # <<>>
    THEN [state EXCEPT !.pending[thread_ts].transactions = remaining]
    ELSE [state EXCEPT !.pending = Pop(@, thread_ts)]

\* approve_all's clean-up: state.pop(key, None) whatever the results were
DropBatch(state, thread_ts) == [state EXCEPT !.pending = Pop(@, thread_ts)]

NoTxn == [id |-> "", payee_name |-> "", suggested_category |-> EmptyString]

\* the passes of the command's loop, in order: the number each reports, the
\* transaction it updates and the category it sends.  approve_all walks the
\* batch, approve_specific the numbers, change_category updates one transaction
WorkItems(L) ==
    CASE L.cmd.kind = "approve_all" ->
            [k \in DOMAIN L.transactions |->
                [num |-> k, valid |-> TRUE, txn |-> L.transactions[k],
                 category |-> L.transactions[k].suggested_category]]
      [] L.cmd.kind = "approve_specific" ->
            [k \in DOMAIN L.cmd.numbers |->
                LET num == L.cmd.numbers[k] IN
                IF InvalidNumber(num, L.transactions)
                THEN [num |-> num, valid |-> FALSE, txn |-> NoTxn,
                      category |-> EmptyString]
                ELSE [num |-> num, valid |-> TRUE, txn |-> L.transactions[num],
                      category |-> L.transactions[num].suggested_category]]
      [] OTHER ->
            << [num |-> L.cmd.txn_num, valid |-> TRUE,
                txn |-> L.transactions[L.cmd.txn_num],
                category |-> L.matched_category] >>

\* the result line of one pass ("✅"/"❌") and whether it sent a PATCH
ResultOf(item, http_ok) ==
    [ok |-> item.valid /\ UpdateYnabTransaction(item.category, http_ok),
     num |-> item.num, id |-> item.txn.id,
     patched |-> item.valid /\ PatchIssued(item.category)]

\* what a pass with a successful update does to self.state after
\* learn_pattern: approve_all appends the id at once, approve_specific
\* collects it in approved_ids, change_category appends it before its last save
AfterLearn(L, learned, item) ==
    CASE L.cmd.kind = "approve_all" ->
            [L EXCEPT !.state = MarkProcessed(learned, <<item.txn.id>>)]
      [] L.cmd.kind = "approve_specific" ->
            [L EXCEPT !.state = learned,
                      !.approved_ids = Append(@, item.txn.id)]
      [] OTHER -> [L EXCEPT !.state = learned]

\* the number of "✅" lines
SuccessCount(results) == Cardinality({k \in DOMAIN results : results[k].ok})

\* the end of approve_all: the batch is popped, the state saved
FinishApproveAll(L) ==
    LET state == DropBatch(L.state, L.thread_ts)
    IN  [state |-> state, save |-> TRUE,
         reply |-> [kind |-> "updated", thread_ts |-> L.thread_ts,
                    count |-> SuccessCount(L.results),
                    total |-> Len(L.transactions), remaining |-> 0]]

\* the end of approve_specific: processed ids, the remaining list, the save
FinishApproveSpecific(L) ==
    LET remaining == Remaining(L.transactions, L.approved_ids)
        state == KeepRemaining(MarkProcessed(L.state, L.approved_ids),
                               L.thread_ts, remaining)
    IN  [state |-> state, save |-> TRUE,
         reply |-> [kind |-> "approved", thread_ts |-> L.thread_ts,
                    count |-> Len(L.approved_ids),
                    total |-> Len(L.transactions),
                    remaining |-> Len(remaining)]]

\* the end of change_category: after a successful update the processed
\* append, the remaining list and the save; after a failed one only the reply
FinishChangeCategory(L) ==
    LET txn == L.transactions[L.cmd.txn_num]
        remaining == Remaining(L.transactions, <<txn.id>>)
        state == KeepRemaining(MarkProcessed(L.state, <<txn.id>>),
                               L.thread_ts, remaining)
    IN  IF L.results[1].ok
        THEN [state |-> state, save |-> TRUE,
              reply |-> [kind |-> "changed", thread_ts |-> L.thread_ts,
                         count |-> 1, total |-> Len(L.transactions),
                         remaining |-> Len(remaining)]]
        ELSE [state |-> L.state, save |-> FALSE,
              reply |-> Answer("change_failed", L.thread_ts)]

Finish(L) ==
    CASE L.cmd.kind = "approve_all" -> FinishApproveAll(L)
      [] L.cmd.kind = "approve_specific" -> FinishApproveSpecific(L)
      [] OTHER -> FinishChangeCategory(L)

\* The answers of the budgeting API to the PATCH calls of passes i..n, as far
\* as a run to the next save can tell them apart: every call before pass j
\* answers an error and the call of pass j answers 200 (j = n + 1: none does)
HttpOutcomes(i, n) == {[k \in 1..n |-> k = j] : j \in i..(n + 1)}

\* The command of handler h runs on from locals L to its next save_state:
\* the passes from L.i on are made with the PATCH outcomes http_oks, up to
\* and including the first one whose update succeeds, where learn_pattern
\* writes the document; when none succeeds the command runs to its end.
RunToNextSave(h, L, http_oks) ==
    \E items \in {WorkItems(L)} :
    \E results \in {[k \in DOMAIN items |-> ResultOf(items[k], http_oks[k])]} :
    \E succeeding \in {{k \in L.i..Len(items) : results[k].ok}} :
    \E j \in {IF succeeding = {} THEN Len(items) + 1
              ELSE CHOOSE k \in succeeding : \A m \in succeeding : k <= m} :
    \E last \in {IF j <= Len(items) THEN j ELSE Len(items)} :
    \E ran \in {[L EXCEPT
                  !.results = @ \o [k \in 1..(last - L.i + 1) |->
                                        results[L.i + k - 1]],
                  !.i = last + 1]} :
        IF j <= Len(items)
        THEN \E learned \in {LearnPattern(L.state, items[j].txn.payee_name,
                                          items[j].category)} :
                 /\ disk' = learned
                 /\ handler' = [handler EXCEPT ![h] =
                       [AfterLearn(ran, learned, items[j]) EXCEPT
                           !.pc = "busy", !.saves = @ + 1]]
        ELSE \E end \in {Finish(ran)} :
                 /\ disk' = IF end.save THEN end.state ELSE disk
                 /\ handler' = [handler EXCEPT ![h] =
                       Answered([ran EXCEPT !.saves =
                                    IF end.save THEN @ + 1 ELSE @],
                                end.state, end.reply)]

\* process_approval for a reply that reaches approve_all, approve_specific
\* or change_category's update, up to the command's first save_state
HandleReply(h, cmd, thread_ts) ==
    /\ handler[h].pc = "idle"
    /\ \E transactions \in
            {FindPendingTransactions(handler[h].state, thread_ts)} :
        /\ transactions # <<>>
        /\ ImmediateAnswer(cmd, transactions) = ""
        /\ \E fresh \in {[Request(handler[h].state, cmd, thread_ts) EXCEPT
                    !.i = 1,
                    !.matched_category =
                        IF cmd.kind = "change"
                        THEN MatchCategory(cmd.new_category)
                        ELSE EmptyString]} :
            \E http_oks \in HttpOutcomes(1, Len(WorkItems(fresh))) :
                RunToNextSave(h, fresh, http_oks)
    /\ UNCHANGED <<ynab, nextTs, fetcher>>
    /\ UNCHANGED detectVars

\* the command of handler h goes on after a learn_pattern save
ContinueCommand(h) ==
    /\ handler[h].pc = "busy"
    /\ \E http_oks \in HttpOutcomes(handler[h].i, Len(WorkItems(handler[h]))) :
          RunToNextSave(h, handler[h], http_oks)
    /\ UNCHANGED <<ynab, nextTs, fetcher>>
    /\ UNCHANGED detectVars

(***************************************************************************)
(* Part 6: the specifications.                                             *)
(***************************************************************************)
\* the length of the batch handler h holds under thread_ts (0: none)
BatchLen(h, thread_ts) ==
    Len(FindPendingTransactions(handler[h].state, thread_ts))

Init == SysInit /\ DetectIdle

Next ==
    \/ FetcherStart
    \/ FetcherNoWork
    \/ FetcherPublish
    \/ FetcherAbort
    \/ \E h \in Handlers : HandlerStart(h)
    \/ \E h \in Handlers, thread_ts \in 1..MaxRuns :
          AnswerNotFound(h, thread_ts)
    \/ \E h \in Handlers, thread_ts \in 1..MaxRuns :
          \E cmd \in Commands(BatchLen(h, thread_ts), SysNumbers) :
             AnswerAtOnce(h, cmd, thread_ts)
    \/ \E h \in Handlers, thread_ts \in 1..MaxRuns :
          \E cmd \in Commands(BatchLen(h, thread_ts), SysNumbers) :
             HandleReply(h, cmd, thread_ts)
    \/ \E h \in Handlers : ContinueCommand(h)
    \/ \E h \in Handlers : PostReply(h)

Spec == Init /\ [][Next]_vars

\* SpecBatch: one batch and the handler.  The fetcher has run once, on a
\* budget of up to MaxBatch spending transactions and one transfer, and has
\* published its batch under ts 1; the handler process has started after that
\* and now answers replies of up to MaxNumbers numbers.
InitBatch ==
    /\ \E n \in 1..MaxBatch : ynab = Budget(n, TRUE)
    /\ LET detected ==
               DetectTransferPairs(
                   GetUncategorizedTransactions(EmptyState, ynab))
       IN  \E suggestions \in
               [DOMAIN detected.non_transfers -> SuggestedNames] :
             disk = StorePending(EmptyState, 1,
                        CategorizeWithAi(detected.non_transfers, suggestions),
                        detected.transfer_pairs)
    /\ nextTs = 2
    /\ fetcher = [pc |-> "idle", state |-> EmptyState]
    /\ handler = [h \in Handlers |-> IdleLocals(disk)]
    /\ DetectIdle

NextBatch ==
    \/ \E h \in Handlers, thread_ts \in 1..2 :
          AnswerNotFound(h, thread_ts)
    \/ \E h \in Handlers, thread_ts \in 1..2 :
          \E cmd \in Commands(BatchLen(h, thread_ts), MaxNumbers) :
             AnswerAtOnce(h, cmd, thread_ts)
    \/ \E h \in Handlers, thread_ts \in 1..2 :
          \E cmd \in Commands(BatchLen(h, thread_ts), MaxNumbers) :
             HandleReply(h, cmd, thread_ts)
    \/ \E h \in Handlers : ContinueCommand(h)
    \/ \E h \in Handlers : PostReply(h)

SpecBatch == InitBatch /\ [][NextBatch]_vars

\* bound: the longest category list of SpecResolve
MaxCategories == 11

\* the categories of a large budget, in the order the API lists them
BaseCategories ==
    <<GasBill, Groceries, Gas, Rent, Auto, Gifts, Fun, Water, Phone, Travel,
      Pets, AutoLoan>>

\* list[r:] + list[:r]
Rotate(list, r) ==
    SubSeq(list, r + 1, Len(list)) \o SubSeq(list, 1, r)

\* the texts typed after "<n>:" in SpecResolve
TypedTexts ==
    {TypedGroceries, TypedNonexistent, TypedGroc, TypedGas, TypedGasBill,
     TypedAuto, TypedLoan, TypedT, EmptyString}

\* SpecResolve: change_category's resolution of a typed text against the
\* category names of a budget: the first n names of the base list read from
\* any of its positions on
InitResolve ==
    /\ ynab = Budget(1, FALSE)
    /\ disk = EmptyState
    /\ nextTs = 1
    /\ fetcher = [pc |-> "idle", state |-> EmptyState]
    /\ handler = [h \in Handlers |-> [IdleLocals(EmptyState) EXCEPT !.pc = "down"]]
    /\ \E r \in 0..(Len(BaseCategories) - 1) :
       \E n \in 0..(IF MaxCategories < Len(BaseCategories)
                     THEN MaxCategories ELSE Len(BaseCategories)) :
       \E text \in TypedTexts :
          dIn = [categories |-> SubSeq(Rotate(BaseCategories, r), 1, n),
                 new_category |-> text]
    /\ dOut = [matched_category |-> EmptyString, available |-> <<>>]
    /\ dpc = "typed"

\* change_category from "Find matching category" to the update call or the
\* "not found" reply
Resolve ==
    /\ dpc = "typed"
    /\ LET matched_category ==
               MatchCategoryIn(dIn.categories, dIn.new_category)
       IN  dOut' = [matched_category |-> matched_category,
                    available |-> IF matched_category = EmptyString
                                  THEN Available(dIn.categories)
                                  ELSE <<>>]
    /\ dpc' = "resolved"
    /\ UNCHANGED dIn
    /\ UNCHANGED sysVars

NextResolve == Resolve

SpecResolve == InitResolve /\ [][NextResolve]_vars

\* SpecRace: two Approval Handler processes serve the replies to one batch.
\* The fetcher has published its batch under ts 1, both processes have
\* started after that and hold the same copy of the document.
RaceHandlers == {"h1", "h2"}

InitRace ==
    /\ ynab \in Budgets
    /\ LET detected ==
               DetectTransferPairs(
                   GetUncategorizedTransactions(EmptyState, ynab))
       IN  \E suggestions \in
               [DOMAIN detected.non_transfers -> SuggestedNames] :
             disk = StorePending(EmptyState, 1,
                        CategorizeWithAi(detected.non_transfers, suggestions),
                        detected.transfer_pairs)
    /\ nextTs = 2
    /\ fetcher = [pc |-> "idle", state |-> EmptyState]
    /\ handler = [h \in RaceHandlers |-> IdleLocals(disk)]
    /\ DetectIdle

NextRace ==
    \/ \E h \in RaceHandlers, thread_ts \in 1..2 :
          AnswerNotFound(h, thread_ts)
    \/ \E h \in RaceHandlers, thread_ts \in 1..2 :
          \E cmd \in Commands(BatchLen(h, thread_ts), SysNumbers) :
             AnswerAtOnce(h, cmd, thread_ts)
    \/ \E h \in RaceHandlers, thread_ts \in 1..2 :
          \E cmd \in Commands(BatchLen(h, thread_ts), SysNumbers) :
             HandleReply(h, cmd, thread_ts)
    \/ \E h \in RaceHandlers : ContinueCommand(h)
    \/ \E h \in RaceHandlers : PostReply(h)

SpecRace == InitRace /\ [][NextRace]_vars

\* the fields of one input transaction of detect_transfer_pairs, its id
\* apart
TxnFields ==
    [date : Dates, amount : Amounts, account_id : Accounts,
     transfer_account_id : Accounts \cup {NoAccount}]

\* the budgeting API's ids are unique: the id of a transaction is its
\* position in the input
WithIds(fields) ==
    [k \in DOMAIN fields |->
        [id |-> k, date |-> fields[k].date, amount |-> fields[k].amount,
         account_id |-> fields[k].account_id,
         transfer_account_id |-> fields[k].transfer_account_id]]

\* SpecDetect: detect_transfer_pairs on every list of at most MaxLen
\* transactions
InitDetect ==
    /\ ynab = Budget(1, FALSE)
    /\ disk = EmptyState
    /\ nextTs = 1
    /\ fetcher = [pc |-> "idle", state |-> EmptyState]
    /\ handler = [h \in Handlers |-> [IdleLocals(EmptyState) EXCEPT !.pc = "down"]]
    /\ \E n \in 0..MaxLen :
          \E fields \in [1..n -> TxnFields] : dIn = WithIds(fields)
    /\ dOut = [transfer_pairs |-> <<>>, non_transfers |-> <<>>]
    /\ dpc = "input"

\* the call detect_transfer_pairs(dIn)
Detect ==
    /\ dpc = "input"
    /\ dOut' = DetectTransferPairs(dIn)
    /\ dpc' = "done"
    /\ UNCHANGED dIn
    /\ UNCHANGED sysVars

NextDetect == Detect

SpecDetect == InitDetect /\ [][NextDetect]_vars

(***************************************************************************)
(* Part 7: properties of detect_transfer_pairs, under SpecDetect.          *)
(***************************************************************************)
\* the match criteria between the input transactions at positions a and b:
\* both transfer-flagged, same date, amounts that are exact negations, each
\* one's account_id the other's transfer_account_id
Reciprocal(a, b) ==
    /\ dIn[a].transfer_account_id # NoAccount
    /\ dIn[b].transfer_account_id # NoAccount
    /\ dIn[a].date = dIn[b].date
    /\ dIn[a].amount + dIn[b].amount = 0
    /\ dIn[a].account_id = dIn[b].transfer_account_id
    /\ dIn[b].account_id = dIn[a].transfer_account_id

Detected == dpc = "done"

PairIds(p) == {dOut.transfer_pairs[p][1].id, dOut.transfer_pairs[p][2].id}

\* the input transaction at position k is a member of some returned pair
InSomePair(k) == \E p \in DOMAIN dOut.transfer_pairs : k \in PairIds(p)

\* the input transactions at positions a and b are returned as one pair
PairedTogether(a, b) ==
    \E p \in DOMAIN dOut.transfer_pairs : PairIds(p) = {a, b}

\* the input transaction at position k is in the non-transfer output
InNonTransfers(k) ==
    \E q \in DOMAIN dOut.non_transfers : dOut.non_transfers[q] = dIn[k]

\* C1 as stated: every two transfer-flagged transactions of the input that
\* meet the match criteria are returned together as one pair and neither is
\* in the non-transfer output.
C1_AnyTwoMatchingArePaired ==
    Detected =>
        \A a, b \in DOMAIN dIn :
            a # b /\ Reciprocal(a, b) =>
                /\ PairedTogether(a, b)
                /\ ~InNonTransfers(a)
                /\ ~InNonTransfers(b)

\* C1, amended: of every two transfer-flagged transactions that meet the
\* match criteria at least one is returned in a pair; a transaction returned
\* in a pair is not in the non-transfer output; and when neither of the two
\* meets the criteria with any third transaction, the two are returned
\* together as one pair and neither is in the non-transfer output.
C1_MatchingPairDetected ==
    Detected =>
        /\ \A k \in DOMAIN dIn : InSomePair(k) => ~InNonTransfers(k)
        /\ \A a, b \in DOMAIN dIn :
              a # b /\ Reciprocal(a, b) =>
                 /\ InSomePair(a) \/ InSomePair(b)
                 /\ (\A c \in DOMAIN dIn \ {a, b} :
                         ~Reciprocal(a, c) /\ ~Reciprocal(b, c))
                      => /\ PairedTogether(a, b)
                         /\ ~InNonTransfers(a)
                         /\ ~InNonTransfers(b)

\* C1, its case: a matching couple with a non-matching third transfer next
\* to it has been returned as a pair
C1_Witness ==
    /\ Detected
    /\ Len(dIn) = 3
    /\ Reciprocal(1, 3)
    /\ dIn[2].transfer_account_id # NoAccount
    /\ ~Reciprocal(1, 2) /\ ~Reciprocal(2, 3)
    /\ dIn[1].amount # 0
    /\ PairedTogether(1, 3)
    /\ InNonTransfers(2)

\* the positions of the transfer-flagged transactions of the input
TransferPositions == {k \in DOMAIN dIn : dIn[k].transfer_account_id # NoAccount}

\* C7: when the transfers of the input are three that meet the match
\* criteria pairwise, exactly one pair is produced, of the first two, and
\* the third is in the non-transfer output; no transaction is in more than
\* one pair (nor twice in one); and each pair joins a transfer with the
\* earliest later transaction that matches it and was not claimed by a pair
\* made before.
C7_FirstFoundWins ==
    Detected =>
        /\ \A a, b, c \in DOMAIN dIn :
              /\ a < b /\ b < c
              /\ TransferPositions = {a, b, c}
              /\ Reciprocal(a, b) /\ Reciprocal(a, c) /\ Reciprocal(b, c)
              => /\ dOut.transfer_pairs = << <<dIn[a], dIn[b]>> >>
                 /\ InNonTransfers(c)
        /\ \A p, q \in DOMAIN dOut.transfer_pairs :
              p # q => PairIds(p) \cap PairIds(q) = {}
        /\ \A p \in DOMAIN dOut.transfer_pairs :
              LET first == dOut.transfer_pairs[p][1].id
                  second == dOut.transfer_pairs[p][2].id
              IN  /\ first < second
                  /\ dOut.transfer_pairs[p] = <<dIn[first], dIn[second]>>
                  /\ Reciprocal(first, second)
                  /\ \A k \in (first + 1)..(second - 1) :
                        Reciprocal(first, k) =>
                            \E q \in 1..(p - 1) : k \in PairIds(q)

\* C7, its case: three transfers that match pairwise have gone through the
\* detector and one pair came out
C7_Witness ==
    /\ Detected
    /\ Len(dIn) = 3
    /\ Reciprocal(1, 2) /\ Reciprocal(1, 3) /\ Reciprocal(2, 3)
    /\ Len(dOut.transfer_pairs) = 1
    /\ InNonTransfers(3)

\* the transfer at position k names a counter-account that is the account
\* of no other transaction of the input
NoCounterpart(k) ==
    /\ dIn[k].transfer_account_id # NoAccount
    /\ \A j \in DOMAIN dIn \ {k} :
          dIn[j].account_id # dIn[k].transfer_account_id

\* C8: a transfer-flagged transaction whose transfer_account_id is the
\* account_id of no other transaction of the input is in the non-transfer
\* output and in no pair.
C8_NoCounterpartFallsThrough ==
    Detected =>
        \A k \in DOMAIN dIn :
            NoCounterpart(k) => InNonTransfers(k) /\ ~InSomePair(k)

\* C8, its case: a transfer without counterpart next to two other
\* transactions, one of them a transfer, has gone through the detector
C8_Witness ==
    /\ Detected
    /\ Len(dIn) = 3
    /\ NoCounterpart(2)
    /\ dIn[1].transfer_account_id # NoAccount
    /\ dIn[3].transfer_account_id = NoAccount
    /\ InNonTransfers(2)

(***************************************************************************)
(* Part 8: properties of one command of the Approval Handler.  They are    *)
(* stated on the state in which process_approval has returned its answer   *)
(* and slack_events has not yet posted it.                                 *)
(***************************************************************************)
\* handler h has just answered a command of the given kind
Replied(h, kind) ==
    handler[h].pc = "replying" /\ handler[h].cmd.kind = kind

\* the transactions a state document holds under pending_<thread_ts>
PendingIn(state, thread_ts) ==
    IF thread_ts \in DOMAIN state.pending
    THEN state.pending[thread_ts].transactions
    ELSE <<>>

\* the passes of the command whose PATCH call was made and answered 200
Succeeded(L) ==
    {k \in DOMAIN L.results : L.results[k].patched /\ L.results[k].ok}

\* the number of entries the command added to the processed-id list for id
AddedCopies(L, id) ==
    CopiesIn(id, L.state.processed_transactions)
        - CopiesIn(id, L.before.processed_transactions)

\* the number of PATCH calls the command made
PatchCalls(L) == Cardinality({k \in DOMAIN L.results : L.results[k].patched})

PassesOn(L, id) == {k \in DOMAIN L.results : L.results[k].id = id}

\* C3 as stated: after any of the three batch commands, a transaction whose
\* category update failed (in every pass that tried it) has gained no entry
\* in the processed-id list and is still in the pending batch, in the
\* handler's state and in the document.
C3_FailedUpdatesStayPending ==
    \A h \in Handlers :
        handler[h].pc = "replying"
        /\ handler[h].cmd.kind \in {"approve_all", "approve_specific", "change"}
        => LET L == handler[h] IN
           \A p \in DOMAIN L.transactions :
               LET txn == L.transactions[p] IN
               /\ PassesOn(L, txn.id) # {}
               /\ \A k \in PassesOn(L, txn.id) : ~L.results[k].ok
               => /\ AddedCopies(L, txn.id) = 0
                  /\ txn \in Elems(PendingIn(L.state, L.thread_ts))
                  /\ txn \in Elems(PendingIn(disk, L.thread_ts))

\* the position of a transaction in the batch the command found
PositionIn(L, txn) == CHOOSE p \in DOMAIN L.transactions : L.transactions[p] = txn

\* C5: approve_specific makes its update calls only for transactions at the
\* positions its numbers name, one pass per number; every transaction at a
\* position no number names is in the pending batch afterwards, in the
\* handler's state and in the document, with no processed-id entry added
\* for it; the pending batch keeps the order of the batch the command
\* found and holds none of the approved transactions; and the reply states
\* the number of transactions that remain whenever any remain.
C5_ApproveSpecificFrame ==
    \A h \in Handlers :
        Replied(h, "approve_specific") =>
            LET L == handler[h]
                N == Len(L.transactions)
                referenced == Elems(L.cmd.numbers) \cap (1..N)
                left == PendingIn(L.state, L.thread_ts)
            IN  /\ Len(L.results) = Len(L.cmd.numbers)
                /\ \A k \in DOMAIN L.results :
                      /\ L.results[k].num = L.cmd.numbers[k]
                      /\ L.results[k].patched \/ L.results[k].ok
                            => /\ L.results[k].num \in referenced
                               /\ L.results[k].id
                                     = L.transactions[L.results[k].num].id
                /\ \A p \in (1..N) \ referenced :
                      /\ L.transactions[p] \in Elems(left)
                      /\ AddedCopies(L, L.transactions[p].id) = 0
                /\ \A k \in Succeeded(L) :
                      \A q \in DOMAIN left : left[q].id # L.results[k].id
                /\ \A q \in DOMAIN left : left[q] \in Elems(L.transactions)
                /\ \A q, r \in DOMAIN left :
                      q < r => PositionIn(L, left[q]) < PositionIn(L, left[r])
                /\ L.reply.kind = "approved"
                /\ L.reply.remaining = Len(left)
                /\ PendingIn(disk, L.thread_ts) = left

\* C5, its case: "approve 2" has answered on a batch of three, the update
\* succeeded, and the first and the third transaction remain, in that order
C5_Witness ==
    \E h \in Handlers :
        /\ Replied(h, "approve_specific")
        /\ Len(handler[h].transactions) = 3
        /\ handler[h].cmd.numbers = <<2>>
        /\ handler[h].results[1].ok
        /\ PendingIn(disk, handler[h].thread_ts)
              = <<handler[h].transactions[1], handler[h].transactions[3]>>
        /\ handler[h].reply.remaining = 2

(***************************************************************************)
(* Part 9: properties of the two processes and the document they share,    *)
(* under Spec.                                                             *)
(***************************************************************************)
\* C4 as stated: a reply whose thread key names a batch that is in the
\* persisted document, with transactions pending in it, is never answered
\* "could not find pending transactions".
C4_PublishedBatchIsFound ==
    [][\A h \in Handlers, thread_ts \in 1..MaxRuns :
          AnswerNotFound(h, thread_ts)
              => PendingIn(disk, thread_ts) = <<>>]_vars

\* C6 as stated: the batch a run of the Fetcher/Categorizer builds holds no
\* transaction whose id is in the processed-id list of the document when
\* the fetch step runs.
C6_ProcessedIdsAreExcluded ==
    [][FetcherPublish
          => \A k \in DOMAIN PendingIn(disk', nextTs) :
                ~BagIn(PendingIn(disk', nextTs)[k].id,
                       disk.processed_transactions)]_vars

\* C9 as stated: a command that has not answered yet has written nothing to
\* the document, and a command that has answered after changing the state
\* has written the document exactly once.
C9_OneWritePerCommand ==
    \A h \in Handlers :
        /\ handler[h].pc = "busy" => handler[h].saves = 0
        /\ handler[h].pc = "replying" /\ handler[h].state # handler[h].before
              => handler[h].saves = 1

\* C10 as stated: every pending entry of the persisted document holds at
\* least one transaction.
C10_NoEmptyPendingBatch ==
    \A ts \in DOMAIN disk.pending : disk.pending[ts].transactions # <<>>

\* C11 as stated: no step of any process takes an id out of the processed-id
\* list of the persisted document.
C11_ProcessedSetOnlyGrows ==
    [][\A id \in BagToSet(disk.processed_transactions) :
          BagIn(id, disk'.processed_transactions)]_vars

(***************************************************************************)
(* Part 10: two handler processes on one batch, under SpecRace.            *)
(***************************************************************************)
\* handler h ends a command in this step with a save_state
FinalWrite(h) ==
    /\ handler[h].pc # "replying"
    /\ handler'[h].pc = "replying"
    /\ handler'[h].saves > handler[h].saves

\* C12: the last full-document write wins.  When a handler process ends a
\* command with its save, the persisted document is that process's copy:
\* its processed ids are the ones the process held when the reply arrived
\* plus the ones this command approved, its learned patterns are the ones
\* the process held plus the ones this command learned, and every other
\* batch is as the process held it; whatever another process wrote to the
\* document in between is gone unless this process made the same change.
C12_LastWriteWins ==
    [][\A h \in RaceHandlers :
          FinalWrite(h) =>
              LET L == handler'[h] IN
              /\ disk' = L.state
              /\ \A id \in BagToSet(disk'.processed_transactions)
                            \cup BagToSet(L.before.processed_transactions) :
                    CopiesIn(id, disk'.processed_transactions)
                      = CopiesIn(id, L.before.processed_transactions)
                          + Cardinality({k \in Succeeded(L) :
                                            L.results[k].id = id})
              /\ DOMAIN disk'.category_patterns
                    = DOMAIN L.before.category_patterns
                        \cup {Normalize(L.transactions[p].payee_name) :
                                p \in {q \in DOMAIN L.transactions :
                                         \E k \in Succeeded(L) :
                                            L.results[k].id
                                              = L.transactions[q].id}}
              /\ \A ts \in (DOMAIN disk'.pending \cup DOMAIN L.before.pending)
                              \ {L.thread_ts} :
                    /\ ts \in DOMAIN disk'.pending
                    /\ ts \in DOMAIN L.before.pending
                    /\ disk'.pending[ts] = L.before.pending[ts]]_vars

\* C12, its case: both processes read the document before either wrote;
\* one has approved a transaction of the batch, saved and answered; the
\* other has then ended its command on the same batch with its save, and
\* the first one's processed id is not in the persisted document
C12_Witness ==
    \E h, g \in RaceHandlers :
        /\ h # g
        /\ handler[h].pc = "idle"
        /\ handler[g].pc = "replying"
        /\ handler[g].saves >= 1
        /\ handler[g].thread_ts = 1
        /\ handler[g].before.processed_transactions = EmptyBag
        /\ 1 \in DOMAIN handler[g].before.pending
        /\ \E id \in BagToSet(handler[h].state.processed_transactions) :
              /\ ~BagIn(id, disk.processed_transactions)
              /\ \E p \in DOMAIN handler[g].before.pending[1].transactions :
                    handler[g].before.pending[1].transactions[p].id = id

(***************************************************************************)
(* Part 11: the category resolution of change_category, under SpecResolve. *)
(***************************************************************************)
Resolved == dpc = "resolved"

\* the name at position k equals the typed text, case ignored
ExactAt(k) == Lower(dIn.categories[k]) = Lower(dIn.new_category)

\* the lower-cased name at position k contains the lower-cased typed text
PartialAt(k) == Contains(Lower(dIn.new_category), Lower(dIn.categories[k]))

\* C13: the resolution gives the first name, in iteration order, that
\* equals the typed text with case ignored; when there is none, the first
\* name whose lower-cased form contains the lower-cased text; when there
\* is none either, it fails, and the hint of the reply is the first ten
\* names (all of them when there are fewer) in sorted order.  "groc"
\* against Groceries, Gas resolves to Groceries; "nonexistent" fails.
C13_ExactThenPartialThenFail ==
    Resolved =>
        LET categories == dIn.categories
            exact == {k \in DOMAIN categories : ExactAt(k)}
            partial == {k \in DOMAIN categories : PartialAt(k)}
            hint == dOut.available
        IN  /\ exact # {} =>
                 \E k \in exact :
                    /\ \A m \in exact : k <= m
                    /\ dOut.matched_category = categories[k]
            /\ exact = {} /\ partial # {} =>
                 \E k \in partial :
                    /\ \A m \in partial : k <= m
                    /\ dOut.matched_category = categories[k]
            /\ exact = {} /\ partial = {} =>
                 /\ dOut.matched_category = <<>>
                 /\ Len(hint) <= 10
                 /\ Len(hint) = 10 \/ Len(hint) = Len(categories)
                 /\ \A q \in DOMAIN hint : hint[q] \in Elems(categories)
                 /\ \A q, r \in DOMAIN hint : q < r => StrLess(hint[q], hint[r])
                 /\ \A name \in Elems(categories) \ Elems(hint) :
                       \A q \in DOMAIN hint : StrLess(hint[q], name)
            /\ categories = <<Groceries, Gas>> =>
                 /\ dIn.new_category = TypedGroc
                       => dOut.matched_category = Groceries
                 /\ dIn.new_category = TypedNonexistent
                       => dOut.matched_category = <<>>

\* C13, its case: "nonexistent" was typed against eleven category names,
\* the resolution failed and the hint lists ten of them
C13_Witness ==
    /\ Resolved
    /\ Len(dIn.categories) = 11
    /\ dIn.new_category = TypedNonexistent
    /\ dOut.matched_category = <<>>
    /\ Len(dOut.available) = 10
    /\ AutoLoan \in Elems(dIn.categories) \ Elems(dOut.available)

(***************************************************************************)
(* Part 12: more properties of one command, under SpecBatch.               *)
(***************************************************************************)
\* C14 as stated: in approve_all and approve_specific, a pass on a
\* transaction whose suggested name the category resolution of
\* change_category would match to a known category (exactly, with another
\* case, or as a substring) makes its update call instead of failing
\* without one.
C14_ApprovalsResolveSuggestedName ==
    \A h \in Handlers :
        handler[h].pc = "replying"
        /\ handler[h].cmd.kind \in {"approve_all", "approve_specific"}
        => LET L == handler[h] IN
           \A k \in DOMAIN L.results :
               \A p \in DOMAIN L.transactions :
                   /\ L.transactions[p].id = L.results[k].id
                   /\ MatchCategory(L.transactions[p].suggested_category)
                         # EmptyString
                   => L.results[k].patched

(***************************************************************************)
(* Part 13: one run of the Fetcher/Categorizer with the content of the     *)
(* completion as its input, SpecFetch.                                     *)
(***************************************************************************)
\* no completion was asked for
NoResponse == [kind |-> "none", items |-> <<>>]

\* ai_response for n transactions: a text json.loads rejects, or a JSON
\* array of 0 .. n + 1 suggestions
Responses(n) ==
    {[kind |-> "text", items |-> <<>>]}
        \cup {[kind |-> "json", items |-> items] :
                items \in UNION {[1..m -> SuggestedNames] : m \in 0..(n + 1)}}

\* a categorize_with_ai that reads a missing suggestion as the first category
\* and a text as the empty array
CategorizePadded(transactions, response) ==
    [raised |-> FALSE,
     transactions |->
        CategorizeWithAi(transactions,
            [k \in DOMAIN transactions |->
                IF k \in DOMAIN response.items THEN response.items[k]
                ELSE CategoryOrder[1]])]

\* categorize_with_ai from the parse on: json.loads raises JSONDecodeError
\* on a text, suggestions[i] raises IndexError past the end of the array;
\* suggestions beyond the last transaction are not read
CategorizeResponse(transactions, response) ==
    IF response.kind = "text" \/ Len(response.items) < Len(transactions)
    THEN [raised |-> TRUE, transactions |-> transactions]
    ELSE [raised |-> FALSE,
          transactions |-> CategorizeWithAi(transactions, response.items)]

\* the state files a run can find: the ids earlier commands have processed
InitFetch ==
    /\ ynab \in Budgets
    /\ \E ids \in SUBSET {RegularTxns[1].id, RegularTxns[2].id} :
          disk = [EmptyState EXCEPT !.processed_transactions = SetToBag(ids)]
    /\ nextTs = 1
    /\ fetcher = [pc |-> "idle", state |-> EmptyState]
    /\ handler = [h \in Handlers |-> [IdleLocals(EmptyState) EXCEPT !.pc = "down"]]
    /\ dIn = NoResponse
    /\ dOut = [exit_code |-> 0]
    /\ dpc = "idle"

\* run() from the fetch to its end: categorize_with_ai is called when there
\* are non-transfer transactions; an exception it raises reaches run's
\* except branch, sys.exit(1), before send_to_slack is called
FetcherRun ==
    /\ fetcher.pc = "loaded"
    /\ nextTs <= MaxRuns
    /\ LET transactions ==
               GetUncategorizedTransactions(fetcher.state, ynab)
           detected == DetectTransferPairs(transactions)
           non_transfer_txns == detected.non_transfers
       IN  /\ transactions # <<>>
           /\ \E response \in (IF non_transfer_txns = <<>> THEN {NoResponse}
                               ELSE Responses(Len(non_transfer_txns))) :
                LET categorized ==
                        IF non_transfer_txns = <<>>
                        THEN [raised |-> FALSE, transactions |-> <<>>]
                        ELSE CategorizeResponse(non_transfer_txns, response)
                IN  /\ dIn' = response
                    /\ IF categorized.raised
                       THEN /\ dOut' = [exit_code |-> 1]
                            /\ UNCHANGED <<disk, nextTs>>
                       ELSE /\ dOut' = [exit_code |-> 0]
                            /\ disk' = StorePending(fetcher.state, nextTs,
                                           categorized.transactions,
                                           detected.transfer_pairs)
                            /\ nextTs' = nextTs + 1
    /\ fetcher' = [pc |-> "idle", state |-> EmptyState]
    /\ dpc' = "ran"
    /\ UNCHANGED <<ynab, handler>>

NextFetch ==
    \/ FetcherStart
    \/ FetcherNoWork
    \/ FetcherRun

SpecFetch == InitFetch /\ [][NextFetch]_vars

\* the transactions a run that has loaded its state hands to categorize_with_ai
ToCategorize ==
    DetectTransferPairs(
        GetUncategorizedTransactions(fetcher.state, ynab)).non_transfers

\* C15: a run whose completion is not JSON, or is a JSON array shorter than
\* the list of transactions to categorize, ends with failure: it posts no
\* message (the next batch key is not used) and leaves the persisted
\* document as it was, no pending batch added.
C15_MalformedResponseEndsRun ==
    [][(/\ fetcher.pc = "loaded"
        /\ fetcher'.pc = "idle"
        /\ ToCategorize # <<>>
        /\ \/ dIn'.kind = "text"
           \/ dIn'.kind = "json" /\ Len(dIn'.items) < Len(ToCategorize))
       => /\ dOut'.exit_code = 1
          /\ nextTs' = nextTs
          /\ disk' = disk]_vars

\* a second run has ended on an array of one suggestion for two
\* transactions, the first run's batch is the only one persisted
C15_Witness ==
    /\ dpc = "ran"
    /\ dOut.exit_code = 1
    /\ dIn.kind = "json"
    /\ Len(dIn.items) = 1
    /\ nextTs = 2
    /\ DOMAIN disk.pending = {1}
    /\ Len(disk.pending[1].transactions) = 2

(***************************************************************************)
(* Part 14: the numbers and the forms of a reply, under SpecBatch.         *)
(***************************************************************************)
\* C16: in approve_specific every number of the reply gets its own result
\* line, in order.  A number below 1 or above the length of the batch gets a
\* failure line, names no transaction and makes no update call; every other
\* number is handled whatever the numbers before it were: its pass names the
\* transaction at that position and makes the update call for it when the
\* suggested name is a known category.
C16_InvalidPositionsFailAlone ==
    \A h \in Handlers :
        Replied(h, "approve_specific") =>
            LET L == handler[h]
                N == Len(L.transactions)
            IN  /\ DOMAIN L.results = DOMAIN L.cmd.numbers
                /\ \A k \in DOMAIN L.cmd.numbers :
                      LET num == L.cmd.numbers[k]
                          line == L.results[k]
                      IN  /\ line.num = num
                          /\ IF num < 1 \/ num > N
                             THEN /\ ~line.ok
                                  /\ ~line.patched
                                  /\ line.id = NoTxn.id
                             ELSE /\ line.id = L.transactions[num].id
                                  /\ line.patched
                                        = (L.transactions[num].suggested_category
                                              \in CategoryNames)
                /\ PatchCalls(L)
                      = Cardinality({k \in DOMAIN L.cmd.numbers :
                            /\ L.cmd.numbers[k] \in 1..N
                            /\ L.transactions[L.cmd.numbers[k]].suggested_category
                                  \in CategoryNames})

\* C16, its cases: "approve 0 1" and "approve 4 3" on a batch of three: the
\* first number fails alone, the second one's update is made and succeeds
C16_Witness ==
    \E h \in Handlers :
        /\ Replied(h, "approve_specific")
        /\ Len(handler[h].transactions) = 3
        /\ handler[h].cmd.numbers \in {<<0, 1>>, <<4, 3>>}
        /\ ~handler[h].results[1].ok
        /\ handler[h].results[2].ok
        /\ handler[h].results[2].patched


\* an answer process_approval gives at once (skip, the help text, a bad
\* number, an unknown category) comes with no update call, no save and no
\* change to self.state or to the persisted document
AnswersAtOnceChangeNothing ==
    \A h \in Handlers :
        handler[h].pc = "replying"
        /\ handler[h].reply.kind
              \in {"skipped", "help", "invalid_number", "unknown_category"}
        => /\ handler[h].results = <<>>
           /\ handler[h].saves = 0
           /\ handler[h].state = handler[h].before
           /\ disk = handler[h].before

(***************************************************************************)
(* Part 15: process_approval's reading of the text of a reply, SpecReply.  *)
(***************************************************************************)
Digits == <<"0", "1", "2", "3", "4", "5", "6", "7", "8", "9">>

IsDigit(c) == LetterIn(Digits, c) # 0

\* int(s) for a run of digits
RECURSIVE ToInt(_)
ToInt(s) ==
    IF s = <<>> THEN 0
    ELSE 10 * ToInt(SubSeq(s, 1, Len(s) - 1)) + (LetterIn(Digits, s[Len(s)]) - 1)

\* str.strip(): the text between its first and its last non-blank character
Strip(s) ==
    LET inked == {k \in DOMAIN s : s[k] # " "}
    IN  IF inked = {} THEN <<>>
        ELSE SubSeq(s, CHOOSE k \in inked : \A j \in inked : k <= j,
                       CHOOSE k \in inked : \A j \in inked : k >= j)

\* str.startswith
StartsWith(s, prefix) ==
    Len(prefix) <= Len(s) /\ SubSeq(s, 1, Len(prefix)) = prefix

\* the length of the run of digits s starts with
RECURSIVE DigitRun(_)
DigitRun(s) ==
    IF s # <<>> /\ IsDigit(Head(s)) THEN 1 + DigitRun(Tail(s)) ELSE 0

\* re.findall(r'\d+', text), each run read as approve_specific's int(num_str)
RECURSIVE FindNumbers(_)
FindNumbers(s) ==
    IF s = <<>> THEN <<>>
    ELSE LET n == DigitRun(s)
         IN  IF n = 0 THEN FindNumbers(Tail(s))
             ELSE <<ToInt(SubSeq(s, 1, n))>>
                      \o FindNumbers(SubSeq(s, n + 1, Len(s)))

\* re.match(r'(\d+):\s*(.+)', text.strip()): digits, a colon, and at least
\* one character after the blanks that follow it
MatchChange(text) ==
    LET s == Strip(text)
        n == DigitRun(s)
    IN  /\ n > 0
        /\ n < Len(s)
        /\ s[n + 1] = ":"
        /\ n + 1 < Len(s)

\* int(match.group(1))
MatchedNumber(text) == ToInt(SubSeq(Strip(text), 1, DigitRun(Strip(text))))

\* match.group(2).strip()
MatchedCategory(text) ==
    LET s == Strip(text) IN Strip(SubSeq(s, DigitRun(s) + 2, Len(s)))

ApproveAllText ==
    <<"a", "p", "p", "r", "o", "v", "e", " ", "a", "l", "l">>

ApprovePrefix == <<"a", "p", "p", "r", "o", "v", "e", " ">>

SkipText == <<"s", "k", "i", "p">>

\* process_approval after the batch was found: the branch the text takes,
\* with the arguments it hands to the branch
ProcessApproval(text) ==
    LET text_lower == Strip(Lower(text))
    IN  IF Contains(ApproveAllText, text_lower)
        THEN [NoCommand EXCEPT !.kind = "approve_all"]
        ELSE IF StartsWith(text_lower, ApprovePrefix)
        THEN [NoCommand EXCEPT !.kind = "approve_specific",
                               !.numbers = FindNumbers(text)]
        ELSE IF Contains(<<":">>, text) /\ MatchChange(text)
        THEN [NoCommand EXCEPT !.kind = "change",
                               !.txn_num = MatchedNumber(text),
                               !.new_category = MatchedCategory(text)]
        ELSE IF text_lower = SkipText
        THEN [NoCommand EXCEPT !.kind = "skip"]
        ELSE [NoCommand EXCEPT !.kind = "other"]

\* the pieces the replies of the specification are written with
ReplyTokens ==
    {<<"A", "p", "p", "r", "o", "v", "e", " ">>, <<"a", "l", "l">>,
     <<"1">>, <<"3">>, <<",">>, <<":", " ">>, SkipText, TypedGas, <<" ">>}

MaxTokens == 4

RECURSIVE Concat(_)
Concat(pieces) ==
    IF pieces = <<>> THEN <<>> ELSE Head(pieces) \o Concat(Tail(pieces))

InitReply ==
    /\ ynab = Budget(1, FALSE)
    /\ disk = EmptyState
    /\ nextTs = 1
    /\ fetcher = [pc |-> "idle", state |-> EmptyState]
    /\ handler = [h \in Handlers |-> [IdleLocals(EmptyState) EXCEPT !.pc = "down"]]
    /\ \E m \in 0..MaxTokens :
       \E pieces \in [1..m -> ReplyTokens] :
          dIn = [text |-> Concat(pieces)]
    /\ dOut = NoCommand
    /\ dpc = "received"

ReadReply ==
    /\ dpc = "received"
    /\ dOut' = ProcessApproval(dIn.text)
    /\ dpc' = "dispatched"
    /\ UNCHANGED dIn
    /\ UNCHANGED sysVars

NextReply == ReadReply

SpecReply == InitReply /\ [][NextReply]_vars

\* the four accepted forms, read from the text without regard to case and
\* to blanks around it: "approve all"
IsApproveAllForm(text) == Strip(Lower(text)) = ApproveAllText

\* "approve <comma-separated integers>": after "approve ", digits, commas
\* and blanks only, a digit among them
IsApproveNumbersForm(text) ==
    LET s == Strip(Lower(text))
        list == SubSeq(s, Len(ApprovePrefix) + 1, Len(s))
    IN  /\ StartsWith(s, ApprovePrefix)
        /\ \A k \in DOMAIN list : IsDigit(list[k]) \/ list[k] \in {",", " "}
        /\ \E k \in DOMAIN list : IsDigit(list[k])

\* "<integer>: <free text>"
IsChangeForm(text) ==
    LET s == Strip(text) IN
    \E n \in 1..(Len(s) - 2) :
        /\ \A k \in 1..n : IsDigit(s[k])
        /\ s[n + 1] = ":"
        /\ Strip(SubSeq(s, n + 2, Len(s))) # EmptyString

\* "skip"
IsSkipForm(text) == Strip(Lower(text)) = SkipText

FormsOf(text) ==
    {form \in {"approve_all", "approve_specific", "change", "skip"} :
        CASE form = "approve_all" -> IsApproveAllForm(text)
          [] form = "approve_specific" -> IsApproveNumbersForm(text)
          [] form = "change" -> IsChangeForm(text)
          [] OTHER -> IsSkipForm(text)}

\* C17 as stated: a reply that is of none of the four accepted forms is
\* answered with the help message, and a reply of one of the forms is handed
\* to the handling of that form and of no other.
C17_RepliesDispatchedByForm ==
    dpc = "dispatched" =>
        /\ FormsOf(dIn.text) = {} => dOut.kind = "other"
        /\ \A form \in FormsOf(dIn.text) : dOut.kind = form


(***************************************************************************)
(* Part 16: more properties of the two processes and the document they     *)
(* share, under Spec.                                                      *)
(***************************************************************************)
\* the ids a state document lists in the transactions of pending batch ts
PendingIds(state, ts) ==
    {state.pending[ts].transactions[k].id :
        k \in DOMAIN state.pending[ts].transactions}

\* C18 as stated: when an approval command has completed (it has saved the
\* document and has its answer), no id in the persisted processed-id list
\* is the id of a transaction in any pending batch of the persisted document.
C18_ProcessedNotPending ==
    \A h \in Handlers :
        handler[h].pc = "replying" /\ handler[h].saves > 0
        => \A ts \in DOMAIN disk.pending :
               \A id \in PendingIds(disk, ts) :
                   ~BagIn(id, disk.processed_transactions)


\* C19 as stated: a step of a handler command that writes the document
\* leaves every pending batch of the persisted document other than the
\* command's own as it was: still present, with the same content, also when
\* the fetcher persisted it after the handler loaded its state.
C19_OtherBatchesUntouched ==
    [][\A h \in Handlers :
          handler'[h].saves > handler[h].saves
          => \A ts \in (DOMAIN disk.pending) \ {handler'[h].thread_ts} :
                /\ ts \in DOMAIN disk'.pending
                /\ disk'.pending[ts] = disk.pending[ts]]_vars


(***************************************************************************)
(* Part 17: the output of detect_transfer_pairs as a partition of its      *)
(* input, under SpecDetect.                                                *)
(***************************************************************************)
\* the number of places of the output (first member of a pair, second member
\* of a pair, entry of the non-transfer list) that hold input transaction k
Occurrences(k) ==
    Cardinality({p \in DOMAIN dOut.transfer_pairs :
                    dOut.transfer_pairs[p][1] = dIn[k]})
    + Cardinality({p \in DOMAIN dOut.transfer_pairs :
                    dOut.transfer_pairs[p][2] = dIn[k]})
    + Cardinality({q \in DOMAIN dOut.non_transfers :
                    dOut.non_transfers[q] = dIn[k]})

\* C20: the output of detect_transfer_pairs is a partition of its input.
\* Every input transaction is in the output exactly once, as one member of
\* one pair or as one entry of the non-transfer list, and the output holds
\* nothing else; the two members of a pair are two different input
\* transactions that meet the match criteria (both transfer-flagged, same
\* date, amounts negated, accounts pointing at each other); a transaction
\* without transfer_account_id is in no pair.
C20_OutputPartitionsInput ==
    Detected =>
        /\ \A k \in DOMAIN dIn : Occurrences(k) = 1
        /\ 2 * Len(dOut.transfer_pairs) + Len(dOut.non_transfers) = Len(dIn)
        /\ \A p \in DOMAIN dOut.transfer_pairs :
              \E a, b \in DOMAIN dIn :
                  /\ a # b
                  /\ dOut.transfer_pairs[p] = <<dIn[a], dIn[b]>>
                  /\ Reciprocal(a, b)
        /\ \A k \in DOMAIN dIn :
              dIn[k].transfer_account_id = NoAccount
                  => ~InSomePair(k) /\ InNonTransfers(k)

\* C20, its case: a transaction without transfer_account_id followed by the
\* two sides of a transfer: one pair, one non-transfer entry
C20_Witness ==
    /\ Detected
    /\ Len(dIn) = 3
    /\ dIn[1].transfer_account_id = NoAccount
    /\ PairedTogether(2, 3)
    /\ dOut.non_transfers = <<dIn[1]>>
    /\ Occurrences(1) = 1 /\ Occurrences(2) = 1 /\ Occurrences(3) = 1

=============================================================================
